---- MODULE Spec2Model ----
(***************************************************************************)
(* A model of sewer's ACME (v1) client, ACMEclient, and of the calls it    *)
(* makes to the certificate authority and to the DNS provider.             *)
(*                                                                         *)
(* One client object is constructed (Init) and then cert / certificate /  *)
(* renew are called on it, one after the other.  Every call runs          *)
(* just_get_me_a_certificate, which is modelled statement by statement:   *)
(* pc is the statement the call is at.  The authority's and the           *)
(* provider's answers are the inputs of each step.                        *)
(***************************************************************************)
EXTENDS Integers, Sequences, FiniteSets, TLC

----------------------------------------------------------------------------
(* Bounds of the model *)

\* issuance calls made on the one client
MaxRuns == 2
\* entries of the 'challenges' list of an authorization response
MaxChallenges == 2
\* the largest modulus of an account key
MaxModulus == 300

----------------------------------------------------------------------------
(* Program constants *)

\* check_challenge_status: maximum_number_of_checks_allowed = 15
maximum_number_of_checks_allowed == 15

\* __init__: GET_NONCE_URL, ACME_CERTIFICATE_AUTHORITY_URL + path
GET_NONCE_URL == "/directory"
NEW_REG_URL == "/acme/new-reg"
NEW_AUTHZ_URL == "/acme/new-authz"
NEW_CERT_URL == "/acme/new-cert"

----------------------------------------------------------------------------
(* The environment's values *)

None == "None"
\* status codes the authority answers a POST with: the client never reads
\* the status code, so one 2xx and one other code stand for all of them, and
\* for new-reg also 409 (already registered)
Statuses(kind) == IF kind = "new-reg" THEN {201, 409, 500} ELSE {201, 500}
\* 0 stands for a request that got no response (timeout, connection error)
PostOutcomes(kind) == Statuses(kind) \cup {0}

\* what the GET of GET_NONCE_URL does: a response with a nonce (the authority
\* never issues the same nonce twice), a response without Replay-Nonce
\* header, no response
NonceOutcomes == {"fresh", "missing", "timeout"}

\* tokens and uris of the challenges of an authorization: the i-th entry of
\* the list has its own token and uri
TokenNames == <<"token1", "token2", "token3", "token4">>
UriNames == <<"/acme/challenge/1", "/acme/challenge/2", "/acme/challenge/3",
              "/acme/challenge/4">>
ChallengeTypes == {"dns-01", "http-01"}
Challenge(type, i) == [type |-> type, token |-> TokenNames[i], uri |-> UriNames[i]]
\* every 'challenges' list of at most MaxChallenges entries
ChallengeLists ==
    UNION {{[i \in 1..n |-> Challenge(types[i], i)] : types \in [1..n -> ChallengeTypes]}
           : n \in 0..MaxChallenges}

\* bodies of the response to new-authz: not JSON, JSON without 'challenges'
\* (an error document), JSON with a 'challenges' list
NoBody == [json |-> FALSE, has_challenges |-> FALSE, challenges |-> <<>>]
AuthzBodies ==
    {NoBody,
     [json |-> TRUE, has_challenges |-> FALSE, challenges |-> <<>>]}
    \cup {[json |-> TRUE, has_challenges |-> TRUE, challenges |-> c] : c \in ChallengeLists}

\* what a GET of the challenge url gives: no response, a body that is not
\* JSON or has no 'status', or a status; the code compares the status with
\* "pending" and "valid" only, "invalid" stands for every other one
PollStatuses == {"pending", "valid", "invalid"}
PollOutcomes == {"timeout", "malformed"} \cup PollStatuses

\* what dns_class.create_dns_record does: returns a response object with
\* .json()['result']['id'], returns None (BaseDns: "This method should return
\* None"), raises
CreateOutcomes == {"response", "none", "raise"}
DeleteOutcomes == {"ok", "raise"}

Domains == {"example.com"}

----------------------------------------------------------------------------
VARIABLES
    \* the client's fields, set by __init__
    domain_name, PRIOR_REGISTERED, account_key, certificate_key, csr,
    certificate_chain,
    \* the authority: nonces handed out so far
    nonces_issued,
    \* the nonce of the protected header of every POST of the session, in order
    post_nonces,
    \* issuance calls started so far
    runs,
    \* the statement the current call is at
    pc,
    \* the requests and provider calls of the current call, in order
    events,
    \* local of get_challenge: the body of the authorization response
    challenge_response,
    \* locals of just_get_me_a_certificate
    dns_token, dns_challenge_url, acme_keyauthorization,
    base64_of_acme_keyauthorization, create_dns_record_response,
    \* locals of check_challenge_status
    number_of_checks, challenge_status, response_bound,
    \* statuses the polls of the current call returned, and how the loop ended
    poll_statuses, poll_end,
    \* arguments of the provider calls of the current call
    create_calls, delete_calls, create_raised, delete_raised,
    \* how the current call ended
    result, error,
    \* the payload of the notify POST of the current call
    notify_payload,
    \* the csr of every new-cert POST of the session, in order
    csrs_submitted,
    \* time.sleep(ACME_CHALLENGE_WAIT_PERIOD) was called after the last
    \* request to the challenge url
    slept,
    \* an auth provider (common.py): the call it is at, its auth_type, the
    \* arguments it is called with, what get_identifier_auth and
    \* fulfill_authorization returned (<<>> for None or no return), the
    \* create_auth_record and delete_auth_record calls made, the exception
    provider_pc, auth_type, authorization_response, value, identifier_auth,
    fulfilled, auth_record_calls, provider_error,
    \* get_acme_header: the public numbers of the account key, the header
    \* returned (<<>> while none is), the exception
    public_numbers, header, header_error

client == <<domain_name, PRIOR_REGISTERED, account_key, certificate_key, csr,
           certificate_chain>>
authority == <<nonces_issued, post_nonces>>
locals == <<challenge_response, dns_token, dns_challenge_url, acme_keyauthorization,
            base64_of_acme_keyauthorization, create_dns_record_response>>
polling == <<number_of_checks, challenge_status, response_bound, poll_statuses,
             poll_end>>
provider == <<create_calls, delete_calls, create_raised, delete_raised>>
outcome == <<result, error>>
acme == <<client, authority, runs, pc, events, locals, polling, provider,
          outcome, notify_payload, csrs_submitted, slept>>
auth_provider == <<provider_pc, auth_type, authorization_response, value,
                   identifier_auth, fulfilled, auth_record_calls, provider_error>>
jwk == <<public_numbers, header, header_error>>
vars == <<acme, auth_provider, jwk>>

----------------------------------------------------------------------------
(* Pure functions of the client *)

\* get_acme_header()['jwk'] dumped with sorted keys, hashed and encoded
Thumbprint(key) == <<"b64url_nopad", <<"sha256", <<"jwk", key>>>>>>

\* get_keyauthorization: "{0}.{1}".format(dns_token, acme_thumbprint)
KeyAuthorization(token, key) == <<token, ".", Thumbprint(key)>>

\* (mutant) the key authorization itself is handed on as the TXT value
Base64OfKeyAuthorizationPlain(keyauth) == keyauth

\* get_keyauthorization: calculate_safe_base64(sha256(acme_keyauthorization))
Base64OfKeyAuthorization(keyauth) == <<"b64url_nopad", <<"sha256", keyauth>>>>

\* (mutant) dns_challenge starts as the last entry of the list, whatever
\* its type
DnsChallengeIndexFallback(chs) ==
    LET hits == {i \in 1..Len(chs) : chs[i].type = "dns-01"}
    IN IF hits = {} THEN Len(chs) ELSE CHOOSE i \in hits : \A j \in hits : j <= i

\* get_challenge: the loop keeps the last entry of type dns-01; 0 when no
\* entry has the type (dns_challenge is then unbound)
DnsChallengeIndex(chs) ==
    LET hits == {i \in 1..Len(chs) : chs[i].type = "dns-01"}
    IN IF hits = {} THEN 0 ELSE CHOOSE i \in hits : \A j \in hits : j <= i

\* create_csr: CN and subjectAltName of the domain, public key of the
\* certificate key, signed with the certificate key
Csr(domain, key) ==
    [CN |-> domain, subjectAltName |-> <<"DNS", domain>>, pubkey |-> key,
     signed_with |-> key]

\* notify_acme_challenge_set: payload
ChallengePayload(keyauth) == [resource |-> "challenge", keyAuthorization |-> keyauth]
NoPayload == [resource |-> None, keyAuthorization |-> <<>>]

----------------------------------------------------------------------------
(* Events *)

\* nonce 0: the request or response carries no nonce; status 0: not recorded
GetEv(kind, url, nonce) ==
    [op |-> "GET", kind |-> kind, url |-> url, nonce |-> nonce, status |-> 0]
PostEv(kind, url, nonce, status) ==
    [op |-> "POST", kind |-> kind, url |-> url, nonce |-> nonce, status |-> status]
ProviderEv(op) ==
    [op |-> op, kind |-> "provider", url |-> None, nonce |-> 0, status |-> 0]

IsPost(e, kind) == e.op = "POST" /\ e.kind = kind
IsGet(e, kind) == e.op = "GET" /\ e.kind = kind

----------------------------------------------------------------------------
(* Construction *)

\* ACMEclient.__init__: the certificate key is created, and the account key
\* is created unless the caller supplies one
InitACMEclient ==
    /\ domain_name \in Domains
    /\ certificate_key = "certificate_key_1"
    /\ csr = Csr(domain_name, certificate_key)
    /\ certificate_chain = "lets-encrypt-x3-cross-signed.pem"
    /\ \E supplied \in BOOLEAN :
        /\ account_key = IF supplied THEN "supplied_account_key"
                                     ELSE "created_account_key"
        /\ PRIOR_REGISTERED = supplied
    /\ nonces_issued = 0
    /\ post_nonces = <<>>
    /\ runs = 0
    /\ pc = "idle"
    /\ events = <<>>
    /\ challenge_response = NoBody
    /\ dns_token = None
    /\ dns_challenge_url = None
    /\ acme_keyauthorization = <<>>
    /\ base64_of_acme_keyauthorization = <<>>
    /\ create_dns_record_response = None
    /\ number_of_checks = 0
    /\ challenge_status = None
    /\ response_bound = FALSE
    /\ poll_statuses = {}
    /\ poll_end = None
    /\ create_calls = <<>>
    /\ delete_calls = <<>>
    /\ create_raised = FALSE
    /\ delete_raised = FALSE
    /\ result = None
    /\ error = None
    /\ notify_payload = NoPayload
    /\ csrs_submitted = <<>>
    /\ slept = FALSE

\* no auth provider is in use
NoAuthProvider ==
    /\ provider_pc = "idle"
    /\ auth_type = None
    /\ authorization_response = <<>>
    /\ value = None
    /\ identifier_auth = <<>>
    /\ fulfilled = <<>>
    /\ auth_record_calls = <<>>
    /\ provider_error = None

\* the public numbers of the account key are not looked at
NoAcmeHeader ==
    /\ public_numbers = <<>>
    /\ header = <<>>
    /\ header_error = None

Init == InitACMEclient /\ NoAuthProvider /\ NoAcmeHeader

----------------------------------------------------------------------------
(* make_signed_acme_request *)

\* the headers of the response to the GET of GET_NONCE_URL
NonceResponseHeaders(o) ==
    IF o = "fresh" THEN ("Replay-Nonce" :> nonces_issued + 1)
    ELSE ("Content-Type" :> 0)

\* (mutant) the nonce of the previous POST is kept and used again
ProtectedNonceCached(headers) ==
    IF post_nonces # <<>> THEN post_nonces[Len(post_nonces)]
    ELSE headers["Replay-Nonce"]

\* nonce = response.headers['Replay-Nonce']; protected["nonce"] = nonce
ProtectedNonce(headers) == headers["Replay-Nonce"]

\* the GET gave a response that has the header: the POST is sent
NonceObtained(o) == o # "timeout" /\ "Replay-Nonce" \in DOMAIN NonceResponseHeaders(o)

\* the exception a failed nonce GET raises out of make_signed_acme_request
NonceError(o) == IF o = "timeout" THEN "TransportError" ELSE "KeyError"

\* the call got a response to its POST
Answered(o, status) == NonceObtained(o) /\ status # 0

\* the exception make_signed_acme_request raises when it has no response
RequestError(o, status) == IF NonceObtained(o) THEN "TransportError" ELSE NonceError(o)

\* GET the nonce url, take the Replay-Nonce header, sign, POST to url
make_signed_acme_request(kind, url, o, status) ==
    /\ LET headers == NonceResponseHeaders(o)
       IN /\ events' = events
                \o <<GetEv("nonce", GET_NONCE_URL,
                           IF NonceObtained(o) THEN headers["Replay-Nonce"] ELSE 0)>>
                \o (IF NonceObtained(o)
                    THEN <<PostEv(kind, url, ProtectedNonce(headers), status)>>
                    ELSE <<>>)
          /\ post_nonces' = IF NonceObtained(o)
                            THEN Append(post_nonces, ProtectedNonce(headers))
                            ELSE post_nonces
    /\ nonces_issued' = IF o = "fresh" THEN nonces_issued + 1 ELSE nonces_issued

\* an exception leaves just_get_me_a_certificate: the call ends in an error
Raise(e) ==
    /\ pc' = "done"
    /\ result' = "error"
    /\ error' = e

----------------------------------------------------------------------------
(* just_get_me_a_certificate *)

\* (mutant) the registration is not guarded by PRIOR_REGISTERED
ShouldRegisterAlways == TRUE

\* (mutant) a client that made a call counts as registered
ShouldRegisterOnce == ~PRIOR_REGISTERED /\ runs = 0

\* if not self.PRIOR_REGISTERED: self.acme_register()
ShouldRegister == ~PRIOR_REGISTERED

\* cert, certificate and renew all enter just_get_me_a_certificate
just_get_me_a_certificate ==
    /\ pc \in {"idle", "done"}
    /\ runs < MaxRuns
    /\ runs' = runs + 1
    /\ pc' = IF ShouldRegister THEN "acme_register" ELSE "get_challenge"
    /\ events' = <<>>
    /\ challenge_response' = NoBody
    /\ dns_token' = None
    /\ dns_challenge_url' = None
    /\ acme_keyauthorization' = <<>>
    /\ base64_of_acme_keyauthorization' = <<>>
    /\ create_dns_record_response' = None
    /\ number_of_checks' = 0
    /\ challenge_status' = None
    /\ response_bound' = FALSE
    /\ poll_statuses' = {}
    /\ poll_end' = None
    /\ create_calls' = <<>>
    /\ delete_calls' = <<>>
    /\ create_raised' = FALSE
    /\ delete_raised' = FALSE
    /\ result' = None
    /\ error' = None
    /\ notify_payload' = NoPayload
    /\ slept' = FALSE
    /\ UNCHANGED <<client, authority, csrs_submitted>>
    /\ UNCHANGED <<auth_provider, jwk>>

\* cert, certificate, renew: return self.just_get_me_a_certificate()
cert == just_get_me_a_certificate
certificate == just_get_me_a_certificate
renew == just_get_me_a_certificate

\* acme_register: POST new-reg, then log the response's .json()
acme_register ==
    /\ pc = "acme_register"
    /\ \E o \in NonceOutcomes, status \in PostOutcomes("new-reg"), json \in BOOLEAN :
        /\ make_signed_acme_request("new-reg", NEW_REG_URL, o, status)
        /\ IF ~Answered(o, status) THEN Raise(RequestError(o, status))
           ELSE IF ~json THEN Raise("ValueError")
           ELSE pc' = "get_challenge" /\ UNCHANGED outcome
    /\ UNCHANGED <<client, runs, locals, polling, provider, notify_payload,
                   csrs_submitted, slept>>
    /\ UNCHANGED <<auth_provider, jwk>>

\* get_challenge up to the response: POST new-authz, log the response's
\* .json()
get_challenge ==
    /\ pc = "get_challenge"
    /\ \E o \in NonceOutcomes, status \in PostOutcomes("new-authz"), body \in AuthzBodies :
        /\ make_signed_acme_request("new-authz", NEW_AUTHZ_URL, o, status)
        /\ IF ~Answered(o, status)
           THEN Raise(RequestError(o, status)) /\ UNCHANGED challenge_response
           ELSE IF ~body.json
           THEN Raise("ValueError") /\ UNCHANGED challenge_response
           ELSE /\ challenge_response' = body
                /\ pc' = "dns_challenge"
                /\ UNCHANGED outcome
    /\ UNCHANGED <<client, runs, dns_token, dns_challenge_url, acme_keyauthorization,
                   base64_of_acme_keyauthorization, create_dns_record_response,
                   polling, provider, notify_payload, csrs_submitted, slept>>
    /\ UNCHANGED <<auth_provider, jwk>>

\* get_challenge from the response on: the loop over
\* challenge_response.json()['challenges'], then the token and uri of the
\* challenge it picked are returned
dns_challenge ==
    /\ pc = "dns_challenge"
    /\ challenge_response' = NoBody
    /\ IF ~challenge_response.has_challenges
       THEN Raise("KeyError") /\ UNCHANGED <<dns_token, dns_challenge_url>>
       ELSE LET i == DnsChallengeIndex(challenge_response.challenges)
            IN IF i = 0
               THEN Raise("UnboundLocalError") /\ UNCHANGED <<dns_token, dns_challenge_url>>
               ELSE /\ dns_token' = challenge_response.challenges[i].token
                    /\ dns_challenge_url' = challenge_response.challenges[i].uri
                    /\ pc' = "get_keyauthorization"
                    /\ UNCHANGED outcome
    /\ UNCHANGED <<client, authority, runs, events, acme_keyauthorization,
                   base64_of_acme_keyauthorization, create_dns_record_response,
                   polling, provider, notify_payload, csrs_submitted, slept>>
    /\ UNCHANGED <<auth_provider, jwk>>

\* get_keyauthorization(dns_token)
get_keyauthorization ==
    /\ pc = "get_keyauthorization"
    /\ acme_keyauthorization' = KeyAuthorization(dns_token, account_key)
    /\ base64_of_acme_keyauthorization' =
           Base64OfKeyAuthorization(KeyAuthorization(dns_token, account_key))
    /\ pc' = "create_dns_record"
    /\ UNCHANGED <<client, authority, runs, events, challenge_response, dns_token,
                   dns_challenge_url, create_dns_record_response, polling,
                   provider, outcome, notify_payload, csrs_submitted, slept>>
    /\ UNCHANGED <<auth_provider, jwk>>

\* (mutant) the call is wrapped in a try/except that logs and goes on
CreateErrorSwallowed(o) == FALSE

\* an exception of dns_class.create_dns_record is not caught: it leaves
\* just_get_me_a_certificate
CreateErrorPropagates(o) == o = "raise"

\* self.dns_class.create_dns_record(self.domain_name, base64_of_acme_keyauthorization)
create_dns_record ==
    /\ pc = "create_dns_record"
    /\ \E o \in CreateOutcomes :
        /\ events' = Append(events, ProviderEv("create"))
        /\ create_calls' = Append(create_calls,
                                  <<domain_name, base64_of_acme_keyauthorization>>)
        /\ create_raised' = (o = "raise")
        /\ IF CreateErrorPropagates(o)
           THEN /\ Raise("ProviderError")
                /\ UNCHANGED create_dns_record_response
           ELSE /\ create_dns_record_response' = IF o = "raise" THEN None ELSE o
                /\ pc' = "notify_acme_challenge_set"
                /\ UNCHANGED outcome
    /\ UNCHANGED <<client, authority, runs, challenge_response, dns_token, dns_challenge_url,
                   acme_keyauthorization, base64_of_acme_keyauthorization, polling,
                   delete_calls, delete_raised, notify_payload, csrs_submitted, slept>>
    /\ UNCHANGED <<auth_provider, jwk>>

\* notify_acme_challenge_set: POST the key authorization to the challenge
\* url, then log the response's .json()
notify_acme_challenge_set ==
    /\ pc = "notify_acme_challenge_set"
    /\ \E o \in NonceOutcomes, status \in PostOutcomes("challenge"), json \in BOOLEAN :
        /\ make_signed_acme_request("challenge", dns_challenge_url, o, status)
        /\ IF NonceObtained(o)
           THEN /\ notify_payload' = ChallengePayload(acme_keyauthorization)
                /\ slept' = FALSE
           ELSE UNCHANGED <<notify_payload, slept>>
        /\ IF ~Answered(o, status) THEN Raise(RequestError(o, status))
           ELSE IF ~json THEN Raise("ValueError")
           ELSE pc' = "dns_record_id" /\ UNCHANGED outcome
    /\ UNCHANGED <<client, runs, locals, polling, provider, csrs_submitted>>
    /\ UNCHANGED <<auth_provider, jwk>>

\* dns_record_id = create_cloudflare_dns_record_response.json()['result']['id']
dns_record_id ==
    /\ pc = "dns_record_id"
    /\ IF create_dns_record_response = "response"
       THEN pc' = "check_challenge_status" /\ UNCHANGED outcome
       ELSE Raise("AttributeError")
    /\ UNCHANGED <<client, authority, runs, events, locals, polling, provider,
                   notify_payload, csrs_submitted, slept>>
    /\ UNCHANGED <<auth_provider, jwk>>

\* check_challenge_status up to the loop: sleep, number_of_checks = 0
check_challenge_status ==
    /\ pc = "check_challenge_status"
    /\ slept' = TRUE
    /\ number_of_checks' = 0
    /\ pc' = "poll"
    /\ UNCHANGED <<client, authority, runs, events, locals, challenge_status,
                   response_bound, poll_statuses, poll_end, provider, outcome,
                   notify_payload, csrs_submitted>>
    /\ UNCHANGED <<auth_provider, jwk>>

\* (mutant) the count of checks is never tested
ChecksNeverExceeded(n) == FALSE

\* if number_of_checks > maximum_number_of_checks_allowed: raise StopIteration
ChecksExceeded(n) == n > maximum_number_of_checks_allowed

\* the break out of the loop because of status "valid"
BreaksLoop(status) == status = "valid"

\* if challenge_status == "pending": time.sleep(...), reached when the
\* GET gave a status and the checks are not exceeded
SleepsAfter(o, n) == o = "pending" /\ ~ChecksExceeded(n)

\* (mutant) the name returned after the loop is always bound
ReturnResponseAlwaysBound(bound) == pc' = "get_certicate" /\ UNCHANGED outcome

\* return check_challenge_status_response, back in
\* just_get_me_a_certificate: certificate = self.get_certicate()
ReturnResponse(bound) ==
    IF bound THEN pc' = "get_certicate" /\ UNCHANGED outcome
    ELSE Raise("UnboundLocalError")

\* the body of the while True loop of check_challenge_status, with the
\* return that follows a break
loop_body(o, d) ==
        IF o = "timeout"
        THEN \* requests.get raises, the except clause breaks
             /\ events' = Append(events, GetEv("challenge", dns_challenge_url, 0))
             /\ poll_end' = "exception"
             /\ ReturnResponse(response_bound)
             /\ UNCHANGED <<number_of_checks, challenge_status, response_bound,
                            poll_statuses, provider>>
        ELSE IF o = "malformed"
        THEN \* .json()['status'] raises, the except clause breaks
             /\ events' = Append(events, GetEv("challenge", dns_challenge_url, 0))
             /\ response_bound' = TRUE
             /\ poll_end' = "exception"
             /\ ReturnResponse(TRUE)
             /\ UNCHANGED <<number_of_checks, challenge_status, poll_statuses,
                            provider>>
        ELSE /\ response_bound' = TRUE
             /\ challenge_status' = o
             /\ number_of_checks' = number_of_checks + 1
             /\ poll_statuses' = poll_statuses \cup {o}
             /\ IF ChecksExceeded(number_of_checks + 1)
                THEN \* StopIteration is caught by the except clause, which breaks
                     /\ events' = Append(events, GetEv("challenge", dns_challenge_url, 0))
                     /\ poll_end' = "limit"
                     /\ ReturnResponse(TRUE)
                     /\ UNCHANGED provider
                ELSE IF BreaksLoop(o)
                THEN \* delete_dns_record, outside the try, then break
                     /\ events' = events
                            \o <<GetEv("challenge", dns_challenge_url, 0),
                                 ProviderEv("delete")>>
                     /\ delete_calls' = Append(delete_calls,
                            <<domain_name, base64_of_acme_keyauthorization>>)
                     /\ delete_raised' = (d = "raise")
                     /\ poll_end' = "valid"
                     /\ IF d = "raise" THEN Raise("ProviderError")
                        ELSE ReturnResponse(TRUE)
                     /\ UNCHANGED <<create_calls, create_raised>>
                ELSE \* "pending": sleep and loop; any other status: loop
                     /\ events' = Append(events, GetEv("challenge", dns_challenge_url, 0))
                     /\ pc' = "poll"
                     /\ UNCHANGED <<poll_end, provider, outcome>>

\* one pass of the loop
poll ==
    /\ pc = "poll"
    /\ \E o \in PollOutcomes, d \in DeleteOutcomes :
        /\ loop_body(o, d)
        \* the GET ends the sleep before it; only the "pending" branch sleeps
        /\ slept' = SleepsAfter(o, number_of_checks + 1)
    /\ UNCHANGED <<client, authority, runs, locals, notify_payload, csrs_submitted>>
    /\ UNCHANGED <<auth_provider, jwk>>

\* get_certicate: POST new-cert with the csr, wrap the response's content
\* as PEM and append the chain
get_certicate ==
    /\ pc = "get_certicate"
    /\ \E o \in NonceOutcomes, status \in PostOutcomes("new-cert") :
        /\ make_signed_acme_request("new-cert", NEW_CERT_URL, o, status)
        /\ csrs_submitted' = IF NonceObtained(o) THEN Append(csrs_submitted, csr)
                              ELSE csrs_submitted
        /\ IF ~Answered(o, status) THEN Raise(RequestError(o, status))
           ELSE /\ pc' = "done"
                /\ result' = "pem_certificate_and_chain"
                /\ error' = None
    /\ UNCHANGED <<client, runs, locals, polling, provider, notify_payload, slept>>
    /\ UNCHANGED <<auth_provider, jwk>>

Next ==
    \/ cert
    \/ certificate
    \/ renew
    \/ acme_register
    \/ get_challenge
    \/ dns_challenge
    \/ get_keyauthorization
    \/ create_dns_record
    \/ notify_acme_challenge_set
    \/ dns_record_id
    \/ check_challenge_status
    \/ poll
    \/ get_certicate

Spec == Init /\ [][Next]_vars

----------------------------------------------------------------------------
(* dns_providers/common.py: BaseAuthProvider *)

\* the arguments an auth provider is called with
AuthTypes == {"dns-01", "http-01"}
\* authorization_response.get("wildcard"): True, False, or the key is absent
Wildcards == {"True", "False", "None"}
Values == {"txt_value_1", "txt_value_2"}
AUTHORIZATION_URL == "/acme/authz/1"
AuthChallenge(type, i) == [type |-> type, token |-> TokenNames[i], url |-> UriNames[i]]
AuthChallengeLists ==
    UNION {{[i \in 1..n |-> AuthChallenge(t[i], i)] : t \in [1..n -> AuthTypes]}
           : n \in 0..MaxChallenges}
AuthorizationResponses ==
    {[identifier |-> [type |-> "dns", value |-> d], wildcard |-> w, challenges |-> c]
        : d \in Domains, w \in Wildcards, c \in AuthChallengeLists}
AuthRecordOutcomes == {"ok", "raise"}

\* BaseAuthProvider.__init__ and the caller's arguments
AuthProviderInit ==
    /\ InitACMEclient
    /\ NoAcmeHeader
    /\ provider_pc = "get_identifier_auth"
    /\ auth_type \in AuthTypes
    /\ authorization_response \in {<<r>> : r \in AuthorizationResponses}
    /\ value \in Values
    /\ identifier_auth = <<>>
    /\ fulfilled = <<>>
    /\ auth_record_calls = <<>>
    /\ provider_error = None

\* (mutant) the wildcard flag is not looked at
IdentifierDomainUnprefixed(domain, wildcard) == domain

\* domain = authorization_response["identifier"]["value"];
\* if wildcard: domain = "*." + domain
IdentifierDomain(domain, wildcard) ==
    IF wildcard = "True" THEN "*." \o domain ELSE domain

\* the dict get_identifier_auth returns from inside its loop at the first
\* challenge of the provider's auth_type; <<>> when the loop ends without one
IdentifierAuth(type, response, url) ==
    LET hits == {i \in DOMAIN response.challenges : response.challenges[i].type = type}
        first == CHOOSE i \in hits : \A j \in hits : i <= j
    IN IF hits = {} THEN <<>>
       ELSE <<[domain |-> IdentifierDomain(response.identifier.value, response.wildcard),
               url |-> url,
               wildcard |-> response.wildcard,
               token |-> response.challenges[first].token,
               challenge_url |-> response.challenges[first].url]>>

get_identifier_auth ==
    /\ provider_pc = "get_identifier_auth"
    /\ identifier_auth' = IdentifierAuth(auth_type, authorization_response[1],
                                         AUTHORIZATION_URL)
    /\ provider_pc' = "fulfill_authorization"
    /\ UNCHANGED <<auth_type, authorization_response, value, fulfilled,
                   auth_record_calls, provider_error>>
    /\ UNCHANGED <<acme, jwk>>

\* responder and cleanup, as fulfill_authorization returns them
Responder(auth, keyauthorization) ==
    [challenge_url |-> auth.challenge_url,
     acme_keyauthorization |-> keyauthorization,
     authorization_url |-> auth.url]
CleanupRecord(name, v) == [name |-> name, value |-> v]

\* fulfill_authorization(identifier_auth, value, acme_keyauthorization):
\* subscripting None raises TypeError; create_auth_record is called before
\* anything is returned
fulfill_authorization ==
    /\ provider_pc = "fulfill_authorization"
    /\ IF identifier_auth = <<>>
       THEN /\ provider_error' = "TypeError"
            /\ provider_pc' = "done"
            /\ UNCHANGED <<fulfilled, auth_record_calls>>
       ELSE \E o \in AuthRecordOutcomes :
            LET name == identifier_auth[1].domain
            IN /\ auth_record_calls' =
                    Append(auth_record_calls, <<"create_auth_record", name, value>>)
               /\ IF o = "raise"
                  THEN /\ provider_error' = "ProviderError"
                       /\ provider_pc' = "done"
                       /\ UNCHANGED fulfilled
                  ELSE /\ fulfilled' = <<Responder(identifier_auth[1], "keyauthorization"),
                                         CleanupRecord(name, value)>>
                       /\ provider_pc' = "cleanup"
                       /\ UNCHANGED provider_error
    /\ UNCHANGED <<auth_type, authorization_response, value, identifier_auth>>
    /\ UNCHANGED <<acme, jwk>>

\* cleanup(record), called with the cleanup record fulfill_authorization
\* returned
cleanup ==
    /\ provider_pc = "cleanup"
    /\ \E o \in AuthRecordOutcomes :
        /\ auth_record_calls' =
             Append(auth_record_calls,
                    <<"delete_auth_record", fulfilled[2].name, fulfilled[2].value>>)
        /\ provider_error' = IF o = "raise" THEN "ProviderError" ELSE provider_error
    /\ provider_pc' = "done"
    /\ UNCHANGED <<auth_type, authorization_response, value, identifier_auth, fulfilled>>
    /\ UNCHANGED <<acme, jwk>>

AuthProviderNext ==
    \/ get_identifier_auth
    \/ fulfill_authorization
    \/ cleanup

AuthProviderSpec == AuthProviderInit /\ [][AuthProviderNext]_vars


----------------------------------------------------------------------------
(* get_acme_header *)

\* public exponents of the account key
Exponents == {3, 17, 257, 65537}
\* moduli of the account key: the products of two distinct odd primes, up
\* to MaxModulus
OddPrimes == {p \in 3..(MaxModulus \div 3) : \A d \in 2..(p - 1) : p % d # 0}
Moduli == {n \in {p * q : p, q \in OddPrimes} :
              /\ n <= MaxModulus
              /\ \E p, q \in OddPrimes : p # q /\ p * q = n}

\* private_key.public_key().public_numbers() of the account key
AcmeHeaderInit ==
    /\ InitACMEclient
    /\ NoAuthProvider
    /\ public_numbers \in {<<[e |-> e, n |-> n]>> : e \in Exponents, n \in Moduli}
    /\ header = <<>>
    /\ header_error = None

\* "{0:x}".format(x): the hexadecimal digits of x, most significant first
RECURSIVE Hex(_)
Hex(x) == IF x < 16 THEN <<x>> ELSE Append(Hex(x \div 16), x % 16)

\* "0{0}".format(exponent) if len(exponent) % 2 else exponent
PadExponent(exponent) ==
    IF Len(exponent) % 2 = 1 THEN <<0>> \o exponent ELSE exponent

\* binascii.unhexlify: one byte of every two digits; raises binascii.Error
\* ("Odd-length string") when the number of digits is odd
Unhexlify(hex) ==
    [raises |-> Len(hex) % 2 = 1,
     bytes |-> IF Len(hex) % 2 = 1 THEN <<>>
               ELSE [i \in 1..(Len(hex) \div 2) |-> 16 * hex[2 * i - 1] + hex[2 * i]]]

\* calculate_safe_base64: urlsafe base64 without the '=' padding
calculate_safe_base64(un_encoded_data) == <<"b64url_nopad", un_encoded_data>>

get_acme_header ==
    /\ public_numbers # <<>>
    /\ header = <<>>
    /\ header_error = None
    /\ LET exponent == PadExponent(Hex(public_numbers[1].e))
           modulus == Hex(public_numbers[1].n)
       IN IF Unhexlify(exponent).raises \/ Unhexlify(modulus).raises
          THEN /\ header_error' = "binascii.Error"
               /\ UNCHANGED header
          ELSE /\ header' = <<[alg |-> "RS256",
                               jwk |-> [e |-> calculate_safe_base64(Unhexlify(exponent).bytes),
                                        kty |-> "RSA",
                                        n |-> calculate_safe_base64(Unhexlify(modulus).bytes)]]>>
               /\ UNCHANGED header_error
    /\ UNCHANGED public_numbers
    /\ UNCHANGED <<acme, auth_provider>>

AcmeHeaderNext == get_acme_header

AcmeHeaderSpec == AcmeHeaderInit /\ [][AcmeHeaderNext]_vars

----------------------------------------------------------------------------
(* What the claims speak of *)

PostIdx(kind) == {i \in DOMAIN events : IsPost(events[i], kind)}
GetIdx(kind) == {i \in DOMAIN events : IsGet(events[i], kind)}
ProviderIdx(op) == {i \in DOMAIN events : events[i].op = op}

\* the loop of check_challenge_status was left
PollingOver == poll_end # None
\* the call returned the PEM bundle
ReturnedBundle == pc = "done" /\ result = "pem_certificate_and_chain"
\* the call ended in an exception
Failed == pc = "done" /\ result = "error"
\* the caller gave an account key to __init__
AccountKeySupplied == account_key = "supplied_account_key"
\* the authorization response has a 'challenges' list without a dns-01 entry
NoDnsChallenge(body) ==
    /\ body.has_challenges
    /\ \A i \in DOMAIN body.challenges : body.challenges[i].type # "dns-01"
Is2xx(status) == status \in 200..299
\* a status that is fatal by the spec: not 2xx, and not 409 on new-reg
FatalStatus(e) ==
    /\ e.op = "POST"
    /\ e.status # 0
    /\ ~Is2xx(e.status)
    /\ ~(e.kind = "new-reg" /\ e.status = 409)

----------------------------------------------------------------------------
(* The claims *)

\* C1: a new-cert POST is issued only if some poll of the challenge url in
\* the same call returned status "valid".
C1_NewCertOnlyAfterValid ==
    PostIdx("new-cert") # {} => "valid" \in poll_statuses

\* C2: once the record is created and the challenge notified, polling that
\* ends (on status valid, or on the poll limit, which is where a challenge
\* that went invalid ends) has called delete with the pair create was called
\* with.
C2_CleanupOnEveryTerminalPath ==
    poll_end \in {"valid", "limit"} =>
        /\ delete_calls # <<>>
        /\ \A i \in DOMAIN delete_calls : delete_calls[i] = create_calls[1]

\* C3: when every poll is answered "pending", polling stops after exactly
\* maximum_number_of_checks_allowed GETs of the challenge url.
C3_ExactlyMaxPollsGets ==
    (PollingOver /\ poll_end = "limit" /\ poll_statuses = {"pending"}) =>
        Cardinality(GetIdx("challenge")) = maximum_number_of_checks_allowed

\* C4: a call whose polling ended on the poll limit (or on status invalid,
\* which in the code ends on the poll limit) ends in an error and returns
\* no PEM bundle.
C4_FailedPollingReturnsNoBundle ==
    (pc = "done" /\ poll_end = "limit") => (result = "error")

\* C5: the notify POST is sent only after create_dns_record returned; when
\* create_dns_record raises, the call fails with no notify POST and no
\* delete_dns_record.
C5_PublishBeforeNotify ==
    /\ \A i \in PostIdx("challenge") :
         /\ ~create_raised
         /\ \E j \in ProviderIdx("create") : j < i
    /\ create_raised =>
         /\ Failed
         /\ PostIdx("challenge") = {}
         /\ ProviderIdx("delete") = {}
         /\ delete_calls = <<>>

C5_Witness ==
    /\ create_raised
    /\ Failed
    /\ PostIdx("new-authz") # {}

C7_NonceDiscipline ==
    /\ \A i \in DOMAIN events :
         events[i].op = "POST" =>
            /\ i > 1
            /\ IsGet(events[i - 1], "nonce")
            /\ events[i - 1].nonce # 0
            /\ events[i].nonce = events[i - 1].nonce
    /\ \A i \in GetIdx("nonce") :
         events[i].nonce = 0 => (i = Len(events) /\ Failed)
    /\ \A i, j \in DOMAIN post_nonces :
         i # j => post_nonces[i] # post_nonces[j]

C7_Witness ==
    /\ runs = 2
    /\ Len(post_nonces) >= 5
    /\ PostIdx("new-cert") # {}

\* C8: a call sends a new-reg POST exactly when no account key was given
\* to __init__ (and the call gets as far as a POST); the new-reg POST is the
\* first POST, before new-authz; with an account key given it is never sent.
C8_RegisterIffNoAccountKey ==
    /\ AccountKeySupplied => PostIdx("new-reg") = {}
    /\ (~AccountKeySupplied /\ \E i \in DOMAIN events : events[i].op = "POST") =>
          /\ Cardinality(PostIdx("new-reg")) = 1
          /\ \A i \in PostIdx("new-authz") : \E j \in PostIdx("new-reg") : j < i
          /\ IsPost(events[2], "new-reg")

C8_Witness ==
    /\ ~AccountKeySupplied
    /\ PostIdx("new-reg") # {}
    /\ PostIdx("new-authz") # {}

\* C9: a POST answered with a status that is not 2xx (and not 409 on
\* new-reg) is the last thing the call does: the call fails there.
C9_Non2xxIsFatal ==
    \A i \in DOMAIN events :
        FatalStatus(events[i]) => (i = Len(events) /\ Failed)

\* C10: an exception of delete_dns_record after status "valid" is not the
\* outcome of the call.
C10_DeleteFailureNotFatal ==
    delete_raised => ~(Failed /\ error = "ProviderError")

\* the first entry of type dns-01 of a 'challenges' list that has one
FirstDnsChallenge(chs) ==
    chs[CHOOSE i \in DOMAIN chs :
            /\ chs[i].type = "dns-01"
            /\ \A j \in DOMAIN chs : chs[j].type = "dns-01" => i <= j]

\* C11: when the 'challenges' list has entries of type dns-01, the token
\* and the url the call goes on with are those of the first of them.
C11_FirstMatchingChallenge ==
    [][(/\ pc = "dns_challenge"
        /\ challenge_response.has_challenges
        /\ ~NoDnsChallenge(challenge_response)) =>
           /\ dns_token' = FirstDnsChallenge(challenge_response.challenges).token
           /\ dns_challenge_url' = FirstDnsChallenge(challenge_response.challenges).uri]_vars

\* C12: with T the token of the chosen challenge and H the thumbprint of
\* the account key, the notify POST carries keyAuthorization T.H, and
\* create_dns_record is given b64url_nopad(sha256(T.H)), which is not T.H.
C12_KeyAuthorizationAndTxtValue ==
    LET H == <<"b64url_nopad", <<"sha256", <<"jwk", account_key>>>>>>
        TH == <<dns_token, ".", H>>
    IN /\ PostIdx("challenge") # {} =>
            /\ notify_payload.resource = "challenge"
            /\ notify_payload.keyAuthorization = TH
       /\ \A i \in DOMAIN create_calls :
            /\ create_calls[i][2] = <<"b64url_nopad", <<"sha256", TH>>>>
            /\ Len(create_calls[i][2]) # Len(TH)
       /\ create_calls # <<>> => dns_token \in {TokenNames[i] : i \in 1..MaxChallenges}

C12_Witness ==
    /\ PostIdx("challenge") # {}
    /\ create_calls # <<>>
    /\ dns_token = TokenNames[2]

\* C13: whatever the authority answers (any mix of statuses, malformed
\* bodies, no response), a call makes at most
\* maximum_number_of_checks_allowed + 1 GETs of the challenge url: every
\* pass of the loop that goes round again has counted its GET, and the loop
\* is left when the count passes the maximum.
C13_PollingIsBounded ==
    /\ Cardinality(GetIdx("challenge")) <= maximum_number_of_checks_allowed + 1
    /\ pc = "poll" =>
         /\ Cardinality(GetIdx("challenge")) = number_of_checks
         /\ number_of_checks <= maximum_number_of_checks_allowed
    /\ PollingOver => pc # "poll"

C13_Witness ==
    /\ PollingOver
    /\ Cardinality(GetIdx("challenge")) = maximum_number_of_checks_allowed + 1
    /\ poll_statuses = {"pending", "invalid"}

\* C14: every GET of the challenge url is made right after a wait_period
\* sleep: the first one after the sleep that follows the notify POST, each
\* later one after a sleep that follows the GET before it, whatever status
\* that GET returned.
C14_SleepBeforeEveryPoll ==
    [][(/\ Len(events') = Len(events) + 1
        /\ IsGet(events'[Len(events')], "challenge")) => slept]_vars

\* C15: the handle returned by create_dns_record is optional: when the
\* provider's create succeeded and returned None and the notify POST was
\* answered, the call goes on to check_challenge_status; it does not end
\* there with the record published, the challenge notified, no GET of the
\* challenge url and no delete.
C15_NoneHandleContinues ==
    [][(/\ pc = "dns_record_id"
        /\ create_dns_record_response = "none"
        /\ ~create_raised) =>
           /\ pc' = "check_challenge_status"
           /\ ~(/\ pc' = "done"
                /\ result' = "error"
                /\ create_calls' # <<>>
                /\ PostIdx("challenge") # {}
                /\ GetIdx("challenge") = {}
                /\ delete_calls' = <<>>)]_vars

\* C16: the certificate key is fresh for each issuance: over the calls made
\* on one client, no two CSRs submitted to new-cert are signed with the same
\* certificate key.
C16_FreshCertificateKeyPerIssuance ==
    \A i, j \in DOMAIN csrs_submitted :
        i # j => csrs_submitted[i].signed_with # csrs_submitted[j].signed_with

\* C17: "invalid" ends the polling: once a GET of the challenge url has
\* returned status "invalid", the call is no longer in the polling loop and
\* sends no further GET of the challenge url.
C17_InvalidIsTerminal ==
    [][/\ "invalid" \in poll_statuses' => pc' # "poll"
       /\ "invalid" \in poll_statuses =>
            ~(/\ Len(events') = Len(events) + 1
              /\ IsGet(events'[Len(events')], "challenge"))]_vars

\* a pass of the loop in which requests.get raised: the except clause
\* broke the loop and the pass bound no response (a pass whose response
\* was bound before and whose .json()['status'] raised is the same step)
TransportException ==
    /\ pc = "poll"
    /\ poll_end' = "exception"
    /\ response_bound' = response_bound

\* C18 (as stated): a transport exception of any GET of the challenge url,
\* the first included, ends the loop as if successful: check_challenge_status
\* returns without raising and the call goes on to get_certicate.
C18_TransportErrorEndsPollingSilently ==
    [][TransportException =>
          /\ pc' = "get_certicate"
          /\ error' # "UnboundLocalError"]_vars

\* C18 (amended): a transport exception of a GET of the challenge url ends
\* the loop; when an earlier GET of this call was made (and so answered),
\* check_challenge_status returns without raising and the call goes on to
\* get_certicate; when it is the first GET, check_challenge_status raises
\* UnboundLocalError and the call fails without a new-cert POST.
C18_TransportErrorAfterAnAnswer ==
    [][TransportException =>
          IF GetIdx("challenge") # {}
          THEN /\ pc' = "get_certicate"
               /\ result' = result
               /\ error' = error
          ELSE /\ pc' = "done"
               /\ result' = "error"
               /\ error' = "UnboundLocalError"
               /\ PostIdx("new-cert") = {}]_vars

C18_Witness ==
    /\ poll_end = "exception"
    /\ pc = "get_certicate"
    /\ Cardinality(GetIdx("challenge")) = 2
    /\ poll_statuses = {"pending"}

\* the create_auth_record and delete_auth_record calls made so far
AuthRecordCalls(op) ==
    {i \in DOMAIN auth_record_calls : auth_record_calls[i][1] = op}

\* C19: for every authorization, cleanup of the record fulfill_authorization
\* returned calls delete_auth_record with exactly the (name, value) of the
\* create_auth_record call, the name being the identifier's value, with "*."
\* in front for a wildcard; when create_auth_record raises, nothing is
\* returned and nothing is deleted.
C19_ProviderRoundTrip ==
    LET d == authorization_response[1].identifier.value
        name == IF authorization_response[1].wildcard = "True"
                THEN "*." \o d ELSE d
        expected(op) == <<op, name, value>>
    IN /\ \A i \in AuthRecordCalls("create_auth_record") :
            /\ i = 1
            /\ auth_record_calls[i] = expected("create_auth_record")
       /\ \A i \in AuthRecordCalls("delete_auth_record") :
            /\ i = 2
            /\ auth_record_calls[i] = expected("delete_auth_record")
            /\ fulfilled # <<>>
       /\ fulfilled # <<>> =>
            /\ AuthRecordCalls("create_auth_record") = {1}
            /\ fulfilled[2] = [name |-> auth_record_calls[1][2],
                               value |-> auth_record_calls[1][3]]
            /\ provider_pc = "done" => AuthRecordCalls("delete_auth_record") = {2}
       /\ (provider_pc = "done" /\ AuthRecordCalls("delete_auth_record") = {}) =>
            /\ fulfilled = <<>>
            /\ provider_error # None

C19_Witness ==
    /\ provider_pc = "done"
    /\ authorization_response[1].wildcard = "True"
    /\ Len(authorization_response[1].challenges) = MaxChallenges
    /\ auth_record_calls = <<<<"create_auth_record", "*.example.com", "txt_value_2">>,
                             <<"delete_auth_record", "*.example.com", "txt_value_2">>>>

\* the bytes of the big-endian unsigned representation of x, without a
\* leading zero byte
RECURSIVE BigEndian(_)
BigEndian(x) == IF x < 256 THEN <<x>> ELSE Append(BigEndian(x \div 256), x % 256)

\* C20: for every positive exponent e and modulus n, get_acme_header
\* succeeds, and the "e" and "n" of the jwk encode the big-endian unsigned
\* bytes of e and n with no extra leading zero byte.
C20_JwkComponentsEncoded ==
    /\ header_error = None
    /\ header # <<>> =>
         /\ header[1].jwk.e = <<"b64url_nopad", BigEndian(public_numbers[1].e)>>
         /\ header[1].jwk.n = <<"b64url_nopad", BigEndian(public_numbers[1].n)>>

\* C21: in a call one of whose polls returned status "valid", the
\* provider's delete is called exactly once, no GET of the challenge url
\* follows it, and it precedes the nonce GET and the POST of new-cert.
C21_DeleteOnceOnValid ==
    "valid" \in poll_statuses =>
        /\ pc # "poll"
        /\ Cardinality(ProviderIdx("delete")) = 1
        /\ \A d \in ProviderIdx("delete") :
             /\ \A i \in GetIdx("challenge") : i < d
             /\ \A i \in PostIdx("new-cert") : d < i - 1
             /\ \A i \in GetIdx("nonce") :
                  (\E p \in PostIdx("challenge") : p < i) => d < i

\* C22: no step after construction changes PRIOR_REGISTERED, the account
\* key, the certificate key, the csr or the certificate chain; so every
\* call on a client constructed without an account key enters acme_register
\* again, also after a call whose new-reg POST was answered 201, and
\* acme_register sends the new-reg POST as soon as it has a nonce.
C22_ClientFieldsAreFrozen ==
    [][/\ client' = client
       /\ (runs' = runs + 1 /\ ~AccountKeySupplied) =>
             /\ ~PRIOR_REGISTERED'
             /\ pc' = "acme_register"
       /\ (runs' = runs + 1 /\ AccountKeySupplied) => pc' = "get_challenge"
       /\ pc = "acme_register" =>
             \/ /\ Len(events') = Len(events) + 2
                /\ IsGet(events'[Len(events') - 1], "nonce")
                /\ IsPost(events'[Len(events')], "new-reg")
             \/ /\ Len(events') = Len(events) + 1
                /\ IsGet(events'[Len(events')], "nonce")
                /\ events'[Len(events')].nonce = 0
                /\ pc' = "done" /\ result' = "error"]_vars

\* the second call of a client without an account key, whose first call
\* got as far as the new-cert POST, has sent a new-reg POST answered 201
C22_Witness ==
    /\ runs = 2
    /\ ~AccountKeySupplied
    /\ ~PRIOR_REGISTERED
    /\ csrs_submitted # <<>>
    /\ PostIdx("new-cert") = {}
    /\ \E i \in PostIdx("new-reg") : events[i].status = 201
    /\ certificate_key = "certificate_key_1"

====
